---- MODULE Spec2Model ----
(***************************************************************************)
(* Harmony-search weekly exercise scheduler (src/harmony_search.py).       *)
(*                                                                         *)
(* Conventions of the model                                                *)
(*  - Korean string literals of the source are written in ASCII:           *)
(*    '휴식' -> "REST", '없음' -> "NONE", '낮음'/'중간'/'높음' ->          *)
(*    "LOW"/"MEDIUM"/"HIGH", and likewise for the catalogue labels.        *)
(*  - random.random() yields a value of [0,1); it is drawn in tenths       *)
(*    (0..9), and the probabilities hmcr, par and the 0.3 threshold are    *)
(*    written in tenths as well.                                           *)
(*  - A fitness is a Python float; it is kept as an exact rational, the    *)
(*    numerator over the common denominator FitDen(available_time).        *)
(*  - A Python exception ends the call: pc = "error" and error names it.   *)
(*  - An unset Python value (no report yet) is the empty sequence, a set   *)
(*    one is a one-element sequence.                                       *)
(***************************************************************************)
EXTENDS Integers, Sequences, FiniteSets, TLC

VARIABLES
    hms, hmcr, par, iterations, harmony_memory,     \* fields of HarmonySearch
    available_time, exercise_preference, days,      \* arguments of optimize_schedule
    analysis,                                       \* the analysis argument
    pc, iteration, error,                           \* position in optimize_schedule
    last_round,                                     \* the branch of line 54 the last round took
    best_harmony, report,                           \* line 61, and the value returned
    evals,                                          \* number of _calculate_fitness calls so far
    max_choice,                                     \* random.choice(exercise_types) draws among the first max_choice labels
    calls, prev_report,                             \* calls made on the object; previous call's report
    new_harmony, picks,                             \* line 46: the improvised candidate, and the draws behind each of its days
    inv, owner,                                     \* invocations sharing the object; who appended or wrote each memory entry
    direct                                          \* a direct call of _calculate_fitness: its candidate and its result

vars == <<hms, hmcr, par, iterations, harmony_memory, available_time,
          exercise_preference, days, analysis, pc, iteration, error, last_round,
          best_harmony, report, evals, max_choice, calls, prev_report,
          new_harmony, picks, inv, owner, direct>>

\* what the constructor and the caller fix
config == <<hms, hmcr, par, iterations, available_time, exercise_preference, days,
            analysis, max_choice>>

\* the locals of a round kept between line 46 and line 58
round_locals == <<new_harmony, picks>>

\* the invocations that share the object
sharing == <<inv, owner>>

\* the position and the results of the single invocation
single == <<pc, iteration, error, last_round, best_harmony, report, evals, calls,
            prev_report>>

----------------------------------------------------------------------------
(* Bounds of the model *)

MaxDays == 2
MaxHms == 3
MaxIter == 2
\* days * (hms + 1): the day decisions of the memory and of one improvised candidate
MaxWork == 4
\* calls of optimize_schedule on one object in SpecDet
MaxCalls == 2
\* invocations of optimize_schedule in progress on one object in SpecShare
MaxInvocations == 2

\* generate_optimal_schedule asks for a week
WeekDays == 7

\* random.choice(exercise_types): the indices the draws are taken from
TypeDraws == 1 .. max_choice

Budgets == {-5, 0, 19, 20, 21}
Preferences == {"cardio", "unrecognized"}

----------------------------------------------------------------------------
(* Small helpers *)

Min(a, b) == IF a <= b THEN a ELSE b
Max(a, b) == IF a >= b THEN a ELSE b

RECURSIVE SumDuration(_, _)
SumDuration(schedule, n) ==
    IF n = 0 THEN 0 ELSE SumDuration(schedule, n - 1) + schedule[n].duration

\* random.random(), in tenths
RandomUnit == 0 .. 9
\* the outcomes S of a branch, which is taken when some draw of random.random() takes it
When(taken, S) == IF taken THEN S ELSE {}
\* random.randint(a, b): the values it can return; it raises ValueError when a > b
RandInt(a, b) == a .. b
\* mutant: the one-value range is taken for an empty one
RandIntRaisesAtEqual(a, b) == a >= b
RandIntRaises(a, b) == a > b
\* random.choice(seq): the indices it can return; it raises IndexError on an empty seq
ChoiceIdx(seq) == 1 .. Len(seq)

REST == "REST"
NONE == "NONE"
intensities == <<"LOW", "MEDIUM", "HIGH">>

----------------------------------------------------------------------------
(* Activity catalogue *)

base_exercises ==
    [cardio |-> <<"running", "cycling", "swimming", "brisk_walking", "HIIT">>,
     strength |-> <<"weight_training", "bodyweight", "dumbbell", "kettlebell", "band">>,
     mixed |-> <<"crossfit", "circuit_training", "cardio_strength", "functional">>,
     yoga_pilates |-> <<"yoga", "pilates", "stretching", "core">>]

\* mutant: an unrecognized preference gets no activity
_get_exercise_typesNoDefault(preference) ==
    IF preference \in DOMAIN base_exercises
    THEN base_exercises[preference]
    ELSE <<>>

_get_exercise_types(preference) ==
    IF preference \in DOMAIN base_exercises
    THEN base_exercises[preference]
    ELSE base_exercises["mixed"]

base_calories ==
    [running |-> 10, cycling |-> 8, swimming |-> 9, brisk_walking |-> 5, HIIT |-> 12,
     weight_training |-> 6, bodyweight |-> 7, dumbbell |-> 6, kettlebell |-> 8, band |-> 5,
     crossfit |-> 11, circuit_training |-> 10, cardio_strength |-> 8, functional |-> 7,
     yoga |-> 3, pilates |-> 4, stretching |-> 2, core |-> 5]

RECURSIVE Pow2Above(_, _)
Pow2Above(v, p) == IF p > v THEN p ELSE Pow2Above(v, 2 * p)

\* int(n * 0.7) in IEEE double arithmetic for an integer n >= 0.  The double
\* nearest to 0.7 lies below 0.7, so when 7n/10 is an integer v in the upper
\* eighth of its binade (8v > 7 * 2^k, v < 2^k) the product rounds to the
\* double just below v and truncates to v - 1 (90 * 0.7 = 62.99999999999999).
IntTimes07(n) ==
    IF n > 0 /\ (7 * n) % 10 = 0 /\ 8 * ((7 * n) \div 10) > 7 * Pow2Above((7 * n) \div 10, 1)
    THEN ((7 * n) \div 10) - 1
    ELSE (7 * n) \div 10

\* int(n * 1.3): the double nearest to 1.3 lies above 1.3; the truncation is exact.
IntTimes13(n) == (13 * n) \div 10

_estimate_calories(exercise_type, duration, intensity) ==
    LET base == IF exercise_type \in DOMAIN base_calories
                THEN base_calories[exercise_type] ELSE 7
    IN  CASE intensity = "LOW" -> IntTimes07(base * duration)
          [] intensity = "HIGH" -> IntTimes13(base * duration)
          [] OTHER -> base * duration

goals ==
    [running |-> "cardio endurance", cycling |-> "lower body strength and endurance",
     swimming |-> "whole body strength and flexibility",
     brisk_walking |-> "basic fitness and fat loss",
     HIIT |-> "fat loss and metabolism",
     weight_training |-> "strength and muscle mass",
     bodyweight |-> "functional strength", dumbbell |-> "upper body strength",
     kettlebell |-> "whole body strength and power",
     band |-> "muscular endurance and joint stability",
     crossfit |-> "whole body fitness and power",
     circuit_training |-> "fat loss and muscular endurance",
     cardio_strength |-> "balanced fitness", functional |-> "daily movement ability",
     yoga |-> "flexibility and mental health", pilates |-> "core and posture",
     stretching |-> "flexibility and recovery", core |-> "abdominal strength and stability"]

_get_exercise_goal(exercise_type, intensity) ==
    IF exercise_type \in DOMAIN goals THEN goals[exercise_type] ELSE "general health"

----------------------------------------------------------------------------
(* Day decisions and random candidates *)

RestDay(d) == [day |-> d, exercise_type |-> REST, duration |-> 0, intensity |-> NONE]

ActiveDay(d, t, n, i) == [day |-> d, exercise_type |-> t, duration |-> n, intensity |-> i]

\* One pass of the loop body of _generate_random_schedule for day number d:
\* every decision the draws can give.  An active draw whose randint raises
\* gives no decision (RandInt is then empty).
RandomDay(at, types, d) ==
    When(\E r \in RandomUnit : ~(r > 3), {RestDay(d)})
    \cup When(\E r \in RandomUnit : r > 3,
              {ActiveDay(d, types[c], n, intensities[i]) :
                 c \in ChoiceIdx(types) \cap TypeDraws,
                 n \in RandInt(Max(20, at - 20), at),
                 i \in ChoiceIdx(intensities)})

\* An active draw raises ValueError in randint when its range is empty
RandomDayRaises(at) ==
    (\E r \in RandomUnit : r > 3) /\ RandIntRaises(Max(20, at - 20), at)

RECURSIVE ScheduleProduct(_, _, _)
ScheduleProduct(at, types, n) ==
    IF n <= 0 THEN {<<>>}
    ELSE {Append(s, x) : s \in ScheduleProduct(at, types, n - 1),
                          x \in RandomDay(at, types, n)}

\* Every schedule _generate_random_schedule can return
_generate_random_schedule(at, preference, ndays) ==
    ScheduleProduct(at, _get_exercise_types(preference), ndays)

\* _generate_random_schedule can raise: some day's active draw does
GenerateRaises(at, ndays) == ndays >= 1 /\ RandomDayRaises(at)

----------------------------------------------------------------------------
(* Fitness evaluator.  Every value is a numerator over FitDen(at). *)

\* 1..8 all divide it: max(1, workout_days) does for schedules of up to 8 days
LcmDays == 8 * 7 * 5 * 3

TargetDen(at) == IF at * 4 > 0 THEN at * 4 ELSE 1

FitDen(at) == TargetDen(at) * LcmDays

IsWorkout(d) == d.exercise_type # REST

WorkoutDays(schedule) == Cardinality({i \in DOMAIN schedule : IsWorkout(schedule[i])})

\* mutant: the second test forgets the six-day case
FrequencyTermNoSix(schedule, at) ==
    LET workout_days == WorkoutDays(schedule)
    IN  FitDen(at) * (IF 3 <= workout_days /\ workout_days <= 5 THEN 30
                      ELSE IF workout_days = 2 THEN 20
                      ELSE 10)

FrequencyTerm(schedule, at) ==
    LET workout_days == WorkoutDays(schedule)
    IN  FitDen(at) * (IF 3 <= workout_days /\ workout_days <= 5 THEN 30
                      ELSE IF workout_days = 2 \/ workout_days = 6 THEN 20
                      ELSE 10)

UtilizationTerm(schedule, at) ==
    LET total_time == SumDuration(schedule, Len(schedule))
        target_time == at * 4
    IN  IF target_time > 0
        THEN 25 * Min(total_time, target_time) * LcmDays
        ELSE 0

\* mutant: the division of line 161 is made whatever target_time is
UtilizationRaisesUnguarded(at) == at * 4 = 0

\* line 161 raises ZeroDivisionError: the division is evaluated (target_time > 0
\* holds) and its divisor target_time is 0
UtilizationRaises(at) == at * 4 > 0 /\ at * 4 = 0

IntensityCount(schedule, x) ==
    Cardinality({i \in DOMAIN schedule : schedule[i].intensity = x})

\* mutant: the spread is divided by the number of days, REST days included
BalanceTermPerDay(schedule, at) ==
    LET counts == {IntensityCount(schedule, intensities[k]) : k \in DOMAIN intensities}
        mx == CHOOSE c \in counts : \A e \in counts : c >= e
        mn == CHOOSE c \in counts : \A e \in counts : c <= e
        wd == Max(1, Len(schedule))
    IN  20 * (wd - (mx - mn)) * (LcmDays \div wd) * TargetDen(at)

BalanceTerm(schedule, at) ==
    LET counts == {IntensityCount(schedule, intensities[k]) : k \in DOMAIN intensities}
        mx == CHOOSE c \in counts : \A e \in counts : c >= e
        mn == CHOOSE c \in counts : \A e \in counts : c <= e
        wd == Max(1, WorkoutDays(schedule))
    IN  20 * (wd - (mx - mn)) * (LcmDays \div wd) * TargetDen(at)

\* the loop of lines 176-181: <<consecutive_workouts, max_consecutive>> after n days
RECURSIVE ConsecutiveScan(_, _)
ConsecutiveScan(schedule, n) ==
    IF n = 0 THEN <<0, 0>>
    ELSE LET prev == ConsecutiveScan(schedule, n - 1)
         IN  IF IsWorkout(schedule[n])
             THEN <<prev[1] + 1, Max(prev[2], prev[1] + 1)>>
             ELSE <<0, prev[2]>>

\* mutant: the run of the last days goes on into the first days
MaxConsecutiveWrapped(schedule) ==
    Min(Len(schedule), ConsecutiveScan(schedule \o schedule, 2 * Len(schedule))[2])

MaxConsecutive(schedule) == ConsecutiveScan(schedule, Len(schedule))[2]

SpacingTerm(schedule, at) ==
    LET max_consecutive == MaxConsecutive(schedule)
    IN  FitDen(at) * (IF max_consecutive <= 3 THEN 15
                      ELSE IF max_consecutive <= 5 THEN 10
                      ELSE 5)

\* mutant: the cap min(..., 10) is dropped
VarietyTermUncapped(schedule, at) ==
    FitDen(at) * 5 * Cardinality({schedule[i].exercise_type :
                                     i \in {j \in DOMAIN schedule : IsWorkout(schedule[j])}})

VarietyTerm(schedule, at) ==
    LET unique_exercises ==
            Cardinality({schedule[i].exercise_type :
                            i \in {j \in DOMAIN schedule : IsWorkout(schedule[j])}})
    IN  FitDen(at) * Min(unique_exercises * 5, 10)

\* mutant: the evaluator reads the payload
_calculate_fitnessReadsAnalysis(schedule, at, payload) ==
    FrequencyTerm(schedule, at) + UtilizationTerm(schedule, at)
    + BalanceTerm(schedule, at) + SpacingTerm(schedule, at) + VarietyTerm(schedule, at)
    + (IF payload = "empty" THEN 0 ELSE 5 * FitDen(at))

_calculate_fitness(schedule, at, payload) ==
    FrequencyTerm(schedule, at) + UtilizationTerm(schedule, at)
    + BalanceTerm(schedule, at) + SpacingTerm(schedule, at) + VarietyTerm(schedule, at)

----------------------------------------------------------------------------
(* Formatter *)

days_kr == <<"Monday", "Tuesday", "Wednesday", "Thursday", "Friday", "Saturday", "Sunday">>

\* mutant: the label is taken one position further in days_kr
FormatDayShifted(i, day_plan) ==
    [day |-> days_kr[(i % Len(days_kr)) + 1],
     exercise |-> IF IsWorkout(day_plan) THEN day_plan.exercise_type
                  ELSE "rest or light stretching",
     duration |-> day_plan.duration,
     intensity |-> day_plan.intensity,
     goal |-> IF IsWorkout(day_plan)
              THEN _get_exercise_goal(day_plan.exercise_type, day_plan.intensity)
              ELSE "recovery",
     estimated_calories |-> IF IsWorkout(day_plan)
                            THEN _estimate_calories(day_plan.exercise_type,
                                                    day_plan.duration, day_plan.intensity)
                            ELSE 0]

FormatDay(i, day_plan) ==
    IF IsWorkout(day_plan)
    THEN [day |-> days_kr[i],
          exercise |-> day_plan.exercise_type,
          duration |-> day_plan.duration,
          intensity |-> day_plan.intensity,
          goal |-> _get_exercise_goal(day_plan.exercise_type, day_plan.intensity),
          estimated_calories |-> _estimate_calories(day_plan.exercise_type,
                                                    day_plan.duration, day_plan.intensity)]
    ELSE [day |-> days_kr[i],
          exercise |-> "rest or light stretching",
          duration |-> 0,
          intensity |-> NONE,
          goal |-> "recovery",
          estimated_calories |-> 0]

\* mutant: the totals miss the first day
RECURSIVE SumFieldSkipsFirst(_, _, _)
SumFieldSkipsFirst(plan, n, workout) ==
    IF n <= 1 THEN <<0, 0>>
    ELSE LET prev == SumFieldSkipsFirst(plan, n - 1, workout)
         IN  IF workout[n]
             THEN <<prev[1] + plan[n].duration, prev[2] + plan[n].estimated_calories>>
             ELSE prev

RECURSIVE SumField(_, _, _)
SumField(plan, n, workout) ==
    IF n = 0 THEN <<0, 0>>
    ELSE LET prev == SumField(plan, n - 1, workout)
         IN  IF workout[n]
             THEN <<prev[1] + plan[n].duration, prev[2] + plan[n].estimated_calories>>
             ELSE prev

\* days_kr[i] raises IndexError for the eighth entry of a schedule
FormatRaises(schedule) == Len(schedule) > Len(days_kr)

\* mutant: the first test is strict
TimeframeStrict(workout_days) ==
    IF workout_days > 4 THEN "8-10 weeks"
    ELSE IF workout_days >= 3 THEN "10-12 weeks"
    ELSE "12-16 weeks"

\* lines 248-253
Timeframe(workout_days) ==
    IF workout_days >= 4 THEN "8-10 weeks"
    ELSE IF workout_days >= 3 THEN "10-12 weeks"
    ELSE "12-16 weeks"

_format_schedule(schedule, at, payload) ==
    LET formatted_plan == [i \in 1 .. Len(schedule) |-> FormatDay(i, schedule[i])]
        totals == SumField(formatted_plan, Len(schedule),
                           [i \in 1 .. Len(schedule) |-> IsWorkout(schedule[i])])
        workout_days == WorkoutDays(schedule)
    IN  [exercise_plan |-> formatted_plan,
         weekly_summary |->
            [total_exercise_time |-> totals[1],
             estimated_calories |-> totals[2],
             workout_days |-> workout_days,
             goal_timeframe |-> Timeframe(workout_days)]]

----------------------------------------------------------------------------
(* Harmony memory *)

Entry(schedule, at, payload) ==
    [schedule |-> schedule, fitness |-> _calculate_fitness(schedule, at, payload)]

\* min(range(len(memory)), key=fitness): the scan keeps the first minimum
RECURSIVE ScanMin(_, _, _)
ScanMin(memory, i, best) ==
    IF i > Len(memory) THEN best
    ELSE ScanMin(memory, i + 1,
                 IF memory[i].fitness < memory[best].fitness THEN i ELSE best)

\* max(memory, key=fitness): the scan keeps the first maximum
RECURSIVE ScanMax(_, _, _)
ScanMax(memory, i, best) ==
    IF i > Len(memory) THEN best
    ELSE ScanMax(memory, i + 1,
                 IF memory[i].fitness > memory[best].fitness THEN i ELSE best)

\* mutant: >= keeps the last maximum
RECURSIVE ScanMaxLast(_, _, _)
ScanMaxLast(memory, i, best) ==
    IF i > Len(memory) THEN best
    ELSE ScanMaxLast(memory, i + 1,
                     IF memory[i].fitness >= memory[best].fitness THEN i ELSE best)

BestIdxLast(memory) == ScanMaxLast(memory, 2, 1)

\* mutant: <= keeps the last minimum
RECURSIVE ScanMinLast(_, _, _)
ScanMinLast(memory, i, best) ==
    IF i > Len(memory) THEN best
    ELSE ScanMinLast(memory, i + 1,
                     IF memory[i].fitness <= memory[best].fitness THEN i ELSE best)

WorstIdxLast(memory) == ScanMinLast(memory, 2, 1)

WorstIdx(memory) == ScanMin(memory, 2, 1)

BestIdx(memory) == ScanMax(memory, 2, 1)

\* Every memory _initialize_harmony_memory can build with n candidates
RECURSIVE MemoryProduct(_, _, _, _)
MemoryProduct(at, preference, ndays, n) ==
    IF n <= 0 THEN {<<>>}
    ELSE {Append(m, Entry(s, at, "empty")) :
            m \in MemoryProduct(at, preference, ndays, n - 1),
            s \in _generate_random_schedule(at, preference, ndays)}

----------------------------------------------------------------------------
(* Improvisation *)

\* mutant: the REST test of line 120 is dropped
PitchAdjustAlsoRest(day_schedule, at) ==
    LET durations == {Min(at, Max(20, day_schedule.duration + k)) : k \in RandInt(-15, 15)}
    IN  {[day_schedule EXCEPT !.duration = n, !.intensity = intensities[i]] :
           n \in durations, i \in ChoiceIdx(intensities)}

\* mutant: the min(available_time, ...) of line 121 is dropped
PitchAdjustNoCap(day_schedule, at) ==
    IF day_schedule.exercise_type # REST
    THEN LET durations == {Max(20, day_schedule.duration + k) : k \in RandInt(-15, 15)}
         IN  {[day_schedule EXCEPT !.duration = n, !.intensity = intensities[i]] :
                n \in durations, i \in ChoiceIdx(intensities)}
    ELSE {day_schedule}

\* mutant: the offset is drawn from -20..20
PitchAdjustStep20(day_schedule, at) ==
    IF day_schedule.exercise_type # REST
    THEN LET durations == {Min(at, Max(20, day_schedule.duration + k)) :
                              k \in RandInt(-20, 20)}
         IN  {[day_schedule EXCEPT !.duration = n, !.intensity = intensities[i]] :
                n \in durations, i \in ChoiceIdx(intensities)}
    ELSE {day_schedule}

\* lines 119-123: the day after the pitch-adjustment draws
PitchAdjust(day_schedule, at) ==
    IF day_schedule.exercise_type # REST
    THEN LET durations == {Min(at, Max(20, day_schedule.duration + k)) :
                              k \in RandInt(-15, 15)}
         IN  {[day_schedule EXCEPT !.duration = n, !.intensity = intensities[i]] :
                n \in durations, i \in ChoiceIdx(intensities)}
    ELSE {day_schedule}

\* lines 113-123: a day copied from a memory member, pitch-adjusted or not
MemoryDay(memory, d, at, p) ==
    UNION {When(\E r \in RandomUnit : ~(r < p), {memory[m].schedule[d]})
           \cup When(\E r \in RandomUnit : r < p, PitchAdjust(memory[m].schedule[d], at)) :
           m \in ChoiceIdx(memory)}

\* lines 125-139: a freshly synthesized day
FreshDay(at, types, d) ==
    When(\E r \in RandomUnit : ~(r > 3), {RestDay(d)})
    \cup When(\E r \in RandomUnit : r > 3,
              {ActiveDay(d, types[c], n, intensities[i]) :
                 c \in ChoiceIdx(types) \cap TypeDraws,
                 n \in RandInt(Max(20, at - 20), at),
                 i \in ChoiceIdx(intensities)})

ImproviseDay(memory, d, at, types, h, p) ==
    When(\E r \in RandomUnit : r < h, MemoryDay(memory, d, at, p))
    \cup When(\E r \in RandomUnit : ~(r < h), FreshDay(at, types, d))

RECURSIVE ImproviseProduct(_, _, _, _, _, _)
ImproviseProduct(memory, n, at, types, h, p) ==
    IF n <= 0 THEN {<<>>}
    ELSE {Append(s, x) : s \in ImproviseProduct(memory, n - 1, at, types, h, p),
                          x \in ImproviseDay(memory, n, at, types, h, p)}

\* Every schedule _improvise_new_harmony can return
_improvise_new_harmony(memory, at, preference, ndays, h, p) ==
    ImproviseProduct(memory, ndays, at, _get_exercise_types(preference), h, p)

\* mutant: line 116 without .copy(): day_schedule is the member's own dict, and
\* the assignments of lines 121-123 change the member
PitchWriteAliased(memory, m, d, day_schedule) ==
    [memory EXCEPT ![m].schedule[d] = day_schedule]

\* The memory after the assignments of lines 121-123 to day_schedule, the day
\* taken from member m: line 116 made day_schedule a copy, a dict of its own
PitchWrite(memory, m, d, day_schedule) == memory

\* what line 113 and line 119 drew for a day: the member copied (0: none, the
\* day is synthesized) and whether the pitch-adjustment branch was entered
Pick(m, adjusted) == [source |-> m, adjusted |-> adjusted]

\* lines 112-141 for day d, after the days before it gave outcome prev: the
\* candidate so far, the picks behind it, and the memory
ImproviseStep(prev, d, at, types, h, p) ==
    When(\E r \in RandomUnit : r < h,
         UNION {When(\E r \in RandomUnit : ~(r < p),
                     {[schedule |-> Append(prev.schedule, prev.memory[m].schedule[d]),
                       picks |-> Append(prev.picks, Pick(m, FALSE)),
                       memory |-> prev.memory]})
                \cup When(\E r \in RandomUnit : r < p,
                          {[schedule |-> Append(prev.schedule, x),
                            picks |-> Append(prev.picks, Pick(m, TRUE)),
                            memory |-> PitchWrite(prev.memory, m, d, x)] :
                             x \in PitchAdjust(prev.memory[m].schedule[d], at)}) :
                m \in ChoiceIdx(prev.memory)})
    \cup When(\E r \in RandomUnit : ~(r < h),
              {[schedule |-> Append(prev.schedule, x),
                picks |-> Append(prev.picks, Pick(0, FALSE)),
                memory |-> prev.memory] : x \in FreshDay(at, types, d)})

\* Every outcome of _improvise_new_harmony: the candidate returned, the picks
\* behind its days, and self.harmony_memory when it returns
RECURSIVE ImproviseOutcomes(_, _, _, _, _, _)
ImproviseOutcomes(memory, n, at, types, h, p) ==
    IF n <= 0 THEN {[schedule |-> <<>>, picks |-> <<>>, memory |-> memory]}
    ELSE UNION {ImproviseStep(prev, n, at, types, h, p) :
                  prev \in ImproviseOutcomes(memory, n - 1, at, types, h, p)}

\* random.choice(self.harmony_memory) raises IndexError on an empty memory
ImproviseIndexError(memory, ndays, h) ==
    ndays >= 1 /\ Len(memory) = 0 /\ \E r \in RandomUnit : r < h

\* randint raises ValueError in a fresh active day
ImproviseValueError(at, ndays, h) ==
    ndays >= 1 /\ (\E r \in RandomUnit : ~(r < h)) /\ RandomDayRaises(at)

----------------------------------------------------------------------------
(* The state machine of one HarmonySearch object *)

\* the analysis argument: {} or the dict of the AI analysis
Payloads == {"empty", "analysis"}

\* HarmonySearch.__init__ followed by the entry into optimize_schedule
Construct(sizes, iters, budgets, preferences, daycounts, choices, payloads) ==
    /\ hms \in sizes
    /\ hmcr = 9
    /\ par = 3
    /\ iterations \in iters
    /\ harmony_memory = <<>>
    /\ available_time \in budgets
    /\ exercise_preference \in preferences
    /\ days \in daycounts
    /\ analysis \in payloads
    /\ pc = "start"
    /\ iteration = 0
    /\ error = "none"
    /\ last_round = "none"
    /\ best_harmony = <<>>
    /\ report = <<>>
    /\ evals = 0
    /\ max_choice = choices
    /\ calls = 1
    /\ prev_report = <<>>
    /\ new_harmony = <<>>
    /\ picks = <<>>
    /\ inv = <<>>
    /\ owner = <<>>
    /\ direct = <<>>

\* Two activity labels are drawn with one duration (budget 20 and below), one
\* label with two durations (budget 21)
Init ==
    /\ \/ Construct(0 .. MaxHms, 0 .. MaxIter, Budgets \ {21}, Preferences, 1 .. MaxDays, 2, {"analysis"})
       \/ Construct(0 .. MaxHms, 0 .. MaxIter, {21}, Preferences, 1 .. MaxDays, 1, {"analysis"})
    /\ days * (hms + 1) <= MaxWork

Raise(kind) ==
    /\ pc' = "error"
    /\ error' = kind
    /\ UNCHANGED <<config, direct, round_locals, sharing, iteration, last_round, best_harmony,
                   report, calls, prev_report>>

\* line 42: _initialize_harmony_memory runs to its end
InitializeReturns ==
    /\ pc = "start"
    /\ harmony_memory' \in MemoryProduct(available_time, exercise_preference, days, hms)
    /\ evals' = evals + Max(hms, 0)
    /\ pc' = "loop"
    /\ UNCHANGED <<config, direct, round_locals, sharing, iteration, error, last_round,
                   best_harmony, report, calls, prev_report>>

\* line 42: the candidates before the j+1-th were appended, its generation raises
InitializeRaises ==
    /\ pc = "start"
    /\ GenerateRaises(available_time, days)
    /\ \E j \in 0 .. hms - 1 :
          /\ harmony_memory' \in MemoryProduct(available_time, exercise_preference, days, j)
          /\ evals' = evals + j
    /\ Raise("ValueError")

\* mutant: one round too many
InRangeInclusive(i, n) == i <= n

\* line 45: range(self.iterations) has a next value
InRange(i, n) == i < n

\* mutant: != for >
BetterNotEqual(new_fitness, worst_fitness) == new_fitness # worst_fitness

\* mutant: the comparison is reversed
BetterReversed(new_fitness, worst_fitness) == new_fitness < worst_fitness

\* line 54: the new harmony is better than the worst member
Better(new_fitness, worst_fitness) == new_fitness > worst_fitness

\* mutant: the new harmony is appended, the worst member stays
ReplaceAppends(memory, worst_idx, harmony, new_fitness) ==
    Append(memory, [schedule |-> harmony, fitness |-> new_fitness])

\* mutant: the schedule is replaced, the fitness of the old member stays
ReplaceKeepsFitness(memory, worst_idx, harmony, new_fitness) ==
    [memory EXCEPT ![worst_idx].schedule = harmony]

\* lines 55-58
Replace(memory, worst_idx, harmony, new_fitness) ==
    [memory EXCEPT ![worst_idx] = [schedule |-> harmony, fitness |-> new_fitness]]

\* lines 45-58: one round of the loop
IterateReturns ==
    /\ pc = "loop"
    /\ InRange(iteration, iterations)
    /\ Len(harmony_memory) > 0
    /\ \E harmony \in _improvise_new_harmony(harmony_memory, available_time,
                                             exercise_preference, days, hmcr, par) :
          LET new_fitness == _calculate_fitness(harmony, available_time, analysis)
              worst_idx == WorstIdx(harmony_memory)
          IN  IF Better(new_fitness, harmony_memory[worst_idx].fitness)
              THEN /\ harmony_memory' = Replace(harmony_memory, worst_idx,
                                                harmony, new_fitness)
                   /\ last_round' = "replaced"
              ELSE /\ harmony_memory' = harmony_memory
                   /\ last_round' = "discarded"
    /\ iteration' = iteration + 1
    /\ evals' = evals + 1
    /\ UNCHANGED <<config, direct, round_locals, sharing, pc, error, best_harmony, report, calls, prev_report>>

\* line 46: _improvise_new_harmony returns
Improvise ==
    /\ pc = "loop"
    /\ InRange(iteration, iterations)
    /\ Len(harmony_memory) > 0
    /\ \E outcome \in ImproviseOutcomes(harmony_memory, days, available_time,
                                         _get_exercise_types(exercise_preference),
                                         hmcr, par) :
          /\ new_harmony' = <<outcome.schedule>>
          /\ picks' = outcome.picks
          /\ harmony_memory' = outcome.memory
    /\ pc' = "improvised"
    /\ UNCHANGED <<config, direct, sharing, iteration, error, last_round, best_harmony, report,
                   evals, calls, prev_report>>

\* lines 47-58: the candidate is scored, and replaces the worst member or is dropped
ReplaceOrDiscard ==
    /\ pc = "improvised"
    /\ LET new_fitness == _calculate_fitness(new_harmony[1], available_time, analysis)
           worst_idx == WorstIdx(harmony_memory)
       IN  IF Better(new_fitness, harmony_memory[worst_idx].fitness)
           THEN /\ harmony_memory' = Replace(harmony_memory, worst_idx,
                                             new_harmony[1], new_fitness)
                /\ last_round' = "replaced"
           ELSE /\ harmony_memory' = harmony_memory
                /\ last_round' = "discarded"
    /\ iteration' = iteration + 1
    /\ evals' = evals + 1
    /\ pc' = "loop"
    /\ new_harmony' = <<>>
    /\ picks' = <<>>
    /\ UNCHANGED <<config, direct, sharing, error, best_harmony, report, calls, prev_report>>

\* line 46 raises: random.choice on an empty memory, or randint on an empty range
ImproviseRaises ==
    /\ pc = "loop"
    /\ InRange(iteration, iterations)
    /\ \E kind \in {"IndexError", "ValueError"} :
          /\ kind = "IndexError" => ImproviseIndexError(harmony_memory, days, hmcr)
          /\ kind = "ValueError" => ImproviseValueError(available_time, days, hmcr)
          /\ Raise(kind)
    /\ UNCHANGED <<harmony_memory, evals>>

\* line 50 raises: min() of an empty range, after an improvisation that copied nothing
WorstOfEmptyRaises ==
    /\ pc = "loop"
    /\ InRange(iteration, iterations)
    /\ Len(harmony_memory) = 0
    /\ _improvise_new_harmony(harmony_memory, available_time, exercise_preference,
                              days, 0, par) # {}
    /\ days >= 1 => \E r \in RandomUnit : ~(r < hmcr)
    /\ evals' = evals + 1
    /\ Raise("ValueError")
    /\ UNCHANGED harmony_memory

\* lines 60-63: the loop is over; select the best member, format it and return
SelectBest ==
    /\ pc = "loop"
    /\ ~InRange(iteration, iterations)
    /\ IF Len(harmony_memory) = 0
       THEN /\ pc' = "error"
            /\ error' = "ValueError"
            /\ UNCHANGED <<best_harmony, report>>
       ELSE LET best == harmony_memory[BestIdx(harmony_memory)]
            IN  /\ best_harmony' = <<best>>
                /\ IF FormatRaises(best.schedule)
                   THEN /\ pc' = "error"
                        /\ error' = "IndexError"
                        /\ UNCHANGED report
                   ELSE /\ pc' = "done"
                        /\ error' = error
                        /\ report' = <<_format_schedule(best.schedule, available_time,
                                                        analysis)>>
    /\ UNCHANGED <<config, direct, round_locals, sharing, harmony_memory, iteration, last_round,
                   evals, calls, prev_report>>

Next ==
    \/ InitializeReturns
    \/ InitializeRaises
    \/ IterateReturns
    \/ ImproviseRaises
    \/ WorstOfEmptyRaises
    \/ SelectBest

Spec == Init /\ [][Next]_vars

\* The call is running: it has neither returned nor raised
Running == pc \in {"start", "loop"}

\* A step of the running call.  Every step of Next is taken while Running and
\* changes pc or iteration, so within Spec the Advance steps are the Next steps.
Advance == Running /\ (pc' # pc \/ iteration' # iteration)

\* optimize_schedule is sequential code: while the call is running its next
\* step is taken.  This is WF_vars(Next) written out, []<>(~ENABLED <<Next>>_vars)
\* \/ []<><<Next>>_vars, with Running for ENABLED <<Next>>_vars and Advance for
\* Next, which spares the search for the draws behind each step.
\* One preference and three budgets are enough for every step to occur.
InitFair ==
    /\ \/ Construct(0 .. MaxHms, 0 .. MaxIter, {0, 20}, {"cardio"}, 1 .. MaxDays, 2, {"analysis"})
       \/ Construct(0 .. MaxHms, 0 .. MaxIter, {21}, {"cardio"}, 1 .. MaxDays, 1, {"analysis"})
    /\ days * (hms + 1) <= MaxWork

FairSpec == InitFair /\ [][Next]_vars /\ ([]<>(~Running) \/ []<><<Advance>>_vars)

----------------------------------------------------------------------------
(* The evaluator and the formatter on candidates of up to a week: one random
   candidate (hms = 1) and no improvisation round.  One label is drawn for
   the long candidates, three for the short ones. *)

InitFit ==
    \/ Construct({1}, {0}, {-5, 0, 20}, {"cardio"}, 1 .. WeekDays, 1, {"analysis"})
    \/ Construct({1}, {0}, {20}, {"cardio"}, 1 .. 3, 3, {"analysis"})

NextFit ==
    \/ InitializeReturns
    \/ InitializeRaises
    \/ SelectBest

SpecFit == InitFit /\ [][NextFit]_vars

----------------------------------------------------------------------------
(* Two calls of optimize_schedule with the same arguments on one object *)

\* the caller calls optimize_schedule again after it returned
CallAgain ==
    /\ pc = "done"
    /\ calls < MaxCalls
    /\ calls' = calls + 1
    /\ prev_report' = report
    /\ pc' = "start"
    /\ iteration' = 0
    /\ last_round' = "none"
    /\ best_harmony' = <<>>
    /\ report' = <<>>
    /\ evals' = 0
    /\ UNCHANGED <<config, direct, round_locals, sharing, harmony_memory, error>>

InitDet == Construct({0, 1}, {0, 1}, {0, 20}, {"cardio"}, {1}, 2, {"analysis"})

NextDet ==
    \/ Next
    \/ CallAgain

SpecDet == InitDet /\ [][NextDet]_vars

----------------------------------------------------------------------------
(* Configurations with a non-positive memory size or day count: range() of a
   non-positive number is empty, so no candidate or no day is generated *)

InitCfg == Construct({-1, 0, 1}, 0 .. MaxIter, {0, 20}, {"cardio"}, {-1, 0, 1}, 2, {"analysis"})

SpecCfg == InitCfg /\ [][Next]_vars

----------------------------------------------------------------------------
(* Calls for a week and for one day more than days_kr has labels.  With the
   budget 0 the only candidate is the all-REST one, so a round is cheap. *)

InitLong ==
    \/ Construct({1}, {0}, {20}, {"cardio"}, {WeekDays, WeekDays + 1}, 1, {"analysis"})
    \/ Construct({1}, {0, 1}, {0}, {"cardio"}, {WeekDays, WeekDays + 1}, 1, {"analysis"})

NextLong ==
    \/ InitializeReturns
    \/ InitializeRaises
    \/ IterateReturns
    \/ ImproviseRaises
    \/ SelectBest

SpecLong == InitLong /\ [][NextLong]_vars

----------------------------------------------------------------------------
(* Direct calls of _calculate_fitness, on well-formed candidates whatever the
   generator would give for the budget: up to three days with three labels and
   two durations, up to a week with one label and one duration. *)

DirectDurations == IF max_choice = 1 THEN {30} ELSE {20, 45}

DirectDay(d, types) ==
    {RestDay(d)}
    \cup {ActiveDay(d, types[c], n, intensities[i]) :
            c \in ChoiceIdx(types) \cap TypeDraws,
            n \in DirectDurations,
            i \in ChoiceIdx(intensities)}

RECURSIVE DirectCandidates(_, _)
DirectCandidates(n, types) ==
    IF n <= 0 THEN {<<>>}
    ELSE {Append(s, x) : s \in DirectCandidates(n - 1, types), x \in DirectDay(n, types)}

\* _calculate_fitness(schedule, available_time, analysis) is called and returns
\* its sum, or raises at line 161
Evaluate ==
    /\ pc = "start"
    /\ \E schedule \in DirectCandidates(days, _get_exercise_types(exercise_preference)) :
          IF UtilizationRaises(available_time)
          THEN /\ pc' = "error"
               /\ error' = "ZeroDivisionError"
               /\ direct' = <<>>
          ELSE /\ pc' = "scored"
               /\ error' = error
               /\ direct' = <<Entry(schedule, available_time, analysis)>>
    /\ evals' = evals + 1
    /\ UNCHANGED <<config, round_locals, sharing, harmony_memory, iteration, last_round,
                   best_harmony, report, calls, prev_report>>

InitEval ==
    \/ Construct({1}, {0}, {-5, 0, 10, 100}, {"cardio"}, 1 .. 3, 3, {"analysis"})
    \/ Construct({1}, {0}, {-5, 0, 10, 100}, {"cardio"}, 4 .. WeekDays, 1, {"analysis"})

NextEval == Evaluate

SpecEval == InitEval /\ [][NextEval]_vars

----------------------------------------------------------------------------
(* A round in two steps, the improvisation (line 46) and the decision (lines
   47-58), with the candidate and the picks behind it kept in between.  The
   budget of 50 gives the pitch adjustment room: durations 30..50. *)

InitStep ==
    /\ \/ Construct(1 .. MaxHms, 0 .. MaxIter, {0, 20}, {"cardio"}, 1 .. MaxDays, 2,
                    {"analysis"})
       \/ Construct(1 .. MaxHms, 0 .. MaxIter, {21}, {"cardio"}, 1 .. MaxDays, 1,
                    {"analysis"})
       \/ Construct({1}, {0, 1}, {50}, {"cardio"}, {1}, 1, {"analysis"})
    /\ days * (hms + 1) <= MaxWork

NextStep ==
    \/ InitializeReturns
    \/ InitializeRaises
    \/ Improvise
    \/ ReplaceOrDiscard
    \/ ImproviseRaises
    \/ SelectBest

SpecStep == InitStep /\ [][NextStep]_vars

----------------------------------------------------------------------------
(* Several invocations of optimize_schedule in progress on one HarmonySearch
   object (threads of one process): each has its own locals, kept in inv[t];
   self.harmony_memory is the object's field and is the same list for all.
   owner[i] is the invocation that appended or wrote harmony_memory[i].  The
   steps interleave between the statements of lines 67, 69-75, 45-58, 60-63. *)

\* a caller enters optimize_schedule with the arguments of the configuration
InvCall ==
    /\ Len(inv) < MaxInvocations
    /\ inv' = Append(inv, [pc |-> "start", appended |-> 0, iteration |-> 0, returned |-> 0])
    /\ UNCHANGED <<config, direct, single, round_locals, harmony_memory, owner>>

\* line 67: self.harmony_memory = []
InvReset ==
    \E t \in DOMAIN inv :
        /\ inv[t].pc = "start"
        /\ harmony_memory' = <<>>
        /\ owner' = <<>>
        /\ inv' = [inv EXCEPT ![t].pc = "init"]
        /\ UNCHANGED <<config, direct, single, round_locals>>

\* lines 69-75: one pass of the loop appends a random candidate
InvAppend ==
    \E t \in DOMAIN inv :
        /\ inv[t].pc = "init"
        /\ inv[t].appended < hms
        /\ \E schedule \in _generate_random_schedule(available_time, exercise_preference, days) :
              harmony_memory' = Append(harmony_memory, Entry(schedule, available_time, "empty"))
        /\ owner' = Append(owner, t)
        /\ inv' = [inv EXCEPT ![t].appended = @ + 1]
        /\ UNCHANGED <<config, direct, single, round_locals>>

\* line 69: range(self.hms) is exhausted, _initialize_harmony_memory returns
InvInitialized ==
    \E t \in DOMAIN inv :
        /\ inv[t].pc = "init"
        /\ ~(inv[t].appended < hms)
        /\ inv' = [inv EXCEPT ![t].pc = "loop"]
        /\ UNCHANGED <<config, direct, single, round_locals, harmony_memory, owner>>

\* lines 45-58: one round on the memory as it is now
InvIterate ==
    \E t \in DOMAIN inv :
        /\ inv[t].pc = "loop"
        /\ InRange(inv[t].iteration, iterations)
        /\ Len(harmony_memory) > 0
        /\ \E harmony \in _improvise_new_harmony(harmony_memory, available_time,
                                                 exercise_preference, days, hmcr, par) :
              LET new_fitness == _calculate_fitness(harmony, available_time, analysis)
                  worst_idx == WorstIdx(harmony_memory)
              IN  IF Better(new_fitness, harmony_memory[worst_idx].fitness)
                  THEN /\ harmony_memory' = Replace(harmony_memory, worst_idx,
                                                    harmony, new_fitness)
                       /\ owner' = [owner EXCEPT ![worst_idx] = t]
                  ELSE UNCHANGED <<harmony_memory, owner>>
        /\ inv' = [inv EXCEPT ![t].iteration = @ + 1]
        /\ UNCHANGED <<config, direct, single, round_locals>>

\* line 115 or 50 (a round), or line 61 (the selection), on a memory another
\* invocation has just emptied: random.choice, min() or max() raises
InvRaises ==
    \E t \in DOMAIN inv :
        /\ inv[t].pc = "loop"
        /\ Len(harmony_memory) = 0
        /\ inv' = [inv EXCEPT ![t].pc = "error"]
        /\ UNCHANGED <<config, direct, single, round_locals, harmony_memory, owner>>

\* lines 60-63: the best member of the memory as it is now is returned
InvSelect ==
    \E t \in DOMAIN inv :
        /\ inv[t].pc = "loop"
        /\ ~InRange(inv[t].iteration, iterations)
        /\ Len(harmony_memory) > 0
        /\ inv' = [inv EXCEPT ![t].pc = "done", ![t].returned = owner[BestIdx(harmony_memory)]]
        /\ UNCHANGED <<config, direct, single, round_locals, harmony_memory, owner>>

InitShare == Construct({1, 2}, {0, 1}, {20}, {"cardio"}, {1}, 1, {"analysis"})

NextShare ==
    \/ InvCall
    \/ InvReset
    \/ InvAppend
    \/ InvInitialized
    \/ InvIterate
    \/ InvRaises
    \/ InvSelect

SpecShare == InitShare /\ [][NextShare]_vars

----------------------------------------------------------------------------
(* Calls that differ in the analysis argument *)

InitPay ==
    /\ Construct(1 .. MaxHms, 0 .. MaxIter, {20}, {"cardio"}, 1 .. MaxDays, 2, Payloads)
    /\ days * (hms + 1) <= MaxWork

NextPay ==
    \/ InitializeReturns
    \/ IterateReturns
    \/ SelectBest

SpecPay == InitPay /\ [][NextPay]_vars

----------------------------------------------------------------------------
(* Properties *)

\* _initialize_harmony_memory has returned
InitializeFinished == pc \in {"loop", "done"} \/ (pc = "error" /\ evals >= hms)

\* a round of the loop can start in this state
CanImprovise == pc = "loop" /\ InRange(iteration, iterations) /\ Len(harmony_memory) > 0

\* what the next round's improvisation can give
Improvisations ==
    _improvise_new_harmony(harmony_memory, available_time, exercise_preference, days,
                           hmcr, par)

\* the candidates held in memory or selected
HeldSchedules ==
    {harmony_memory[i].schedule : i \in DOMAIN harmony_memory}
    \cup {best_harmony[i].schedule : i \in DOMAIN best_harmony}

MaxFitness(memory) ==
    CHOOSE f \in {memory[i].fitness : i \in DOMAIN memory} :
        \A i \in DOMAIN memory : memory[i].fitness <= f

\* the lowest index among the members of maximal fitness
FirstBest(memory) ==
    CHOOSE i \in DOMAIN memory :
        /\ \A j \in DOMAIN memory : memory[j].fitness <= memory[i].fitness
        /\ \A j \in 1 .. i - 1 : memory[j].fitness < memory[i].fitness

\* C1: once _initialize_harmony_memory has returned, and after every round of
\* the loop, harmony_memory holds exactly hms entries (hms >= 1).
C1_MemorySize ==
    (hms >= 1 /\ InitializeFinished) => Len(harmony_memory) = hms

C1_Witness ==
    /\ hms >= 2
    /\ pc = "loop"
    /\ iteration >= 2
    /\ last_round = "replaced"
    /\ Len(harmony_memory) = hms

\* C2: over the rounds of one call the maximum fitness held in memory never
\* decreases, also when hms = 1 and the member replaced is the best one.
C2_BestNeverDecreases ==
    [][(pc = "loop" /\ Len(harmony_memory) > 0 /\ Len(harmony_memory') > 0)
         => MaxFitness(harmony_memory') >= MaxFitness(harmony_memory)]_vars

C2_Witness ==
    /\ hms = 1
    /\ pc = "loop"
    /\ last_round = "replaced"
    /\ iteration >= 1

\* C3: every day decision of every candidate held in memory, selected, or
\* improvised in the next round is REST with duration 0 and intensity NONE, or
\* an activity with a positive duration and an intensity LOW, MEDIUM or HIGH.
ValidDay(d) ==
    /\ (d.exercise_type = REST) <=> (d.duration = 0)
    /\ (d.duration = 0) <=> (d.intensity = NONE)
    /\ d.exercise_type # REST =>
          /\ d.duration > 0
          /\ d.intensity \in {intensities[k] : k \in DOMAIN intensities}

C3_StructuralValidity ==
    /\ \A s \in HeldSchedules : \A d \in DOMAIN s : ValidDay(s[d])
    /\ CanImprovise => \A s \in Improvisations : \A d \in DOMAIN s : ValidDay(s[d])

C3_Witness ==
    /\ CanImprovise
    /\ last_round = "replaced"
    /\ \E s \in HeldSchedules : \E d \in DOMAIN s : s[d].exercise_type = REST
    /\ \E s \in Improvisations : \E d \in DOMAIN s :
          /\ s[d].exercise_type # REST
          /\ \A i \in DOMAIN harmony_memory : harmony_memory[i].schedule[d] # s[d]

\* C4: every active day of every candidate held in memory, selected or
\* improvised in the next round, and of the report returned, lasts at least 20
\* and at most available_time.
BoundedDuration(duration) == 20 <= duration /\ duration <= available_time

C4_BoundedDuration ==
    /\ \A s \in HeldSchedules : \A d \in DOMAIN s :
          s[d].exercise_type # REST => BoundedDuration(s[d].duration)
    /\ CanImprovise =>
          \A s \in Improvisations : \A d \in DOMAIN s :
              s[d].exercise_type # REST => BoundedDuration(s[d].duration)
    /\ \A r \in DOMAIN report : \A d \in DOMAIN report[r].exercise_plan :
          report[r].exercise_plan[d].intensity # NONE =>
              BoundedDuration(report[r].exercise_plan[d].duration)

C4_Witness ==
    /\ pc = "done"
    /\ last_round = "replaced"
    /\ available_time = 21
    /\ \E d \in DOMAIN report[1].exercise_plan : report[1].exercise_plan[d].duration = 20
    /\ \E d \in DOMAIN report[1].exercise_plan : report[1].exercise_plan[d].duration = 21

\* C5: with a budget below 20 (0 included) optimize_schedule raises no error.
C5_SmallBudgetCompletes ==
    (available_time < 20 /\ hms >= 1) => pc # "error"

\* C6: with hms >= 1, 1 <= days <= 7 and a budget of at least 20, the call
\* eventually returns a report, and has then made exactly hms + iterations
\* fitness evaluations.
C6_Terminates ==
    /\ [](Running => ENABLED <<Next>>_vars)
    /\ <>((hms >= 1 /\ iterations >= 0 /\ days >= 1 /\ days <= 7 /\ available_time >= 20)
             => (pc = "done" /\ Len(report) = 1 /\ evals = hms + iterations))

C6_Witness ==
    /\ pc = "done"
    /\ hms >= 2
    /\ iterations >= 2
    /\ available_time >= 20
    /\ evals = hms + iterations

\* C7: the schedule selected, formatted and returned is the member of the final
\* memory with the lowest index among those of maximal fitness.
C7_FirstBestReturned ==
    pc = "done" =>
       /\ best_harmony = <<harmony_memory[FirstBest(harmony_memory)]>>
       /\ report = <<_format_schedule(harmony_memory[FirstBest(harmony_memory)].schedule,
                                      available_time, analysis)>>

C7_Witness ==
    /\ pc = "done"
    /\ Len(harmony_memory) >= 2
    /\ harmony_memory[1].fitness = MaxFitness(harmony_memory)
    /\ harmony_memory[2].fitness = MaxFitness(harmony_memory)
    /\ harmony_memory[1].schedule # harmony_memory[2].schedule
    /\ _format_schedule(harmony_memory[1].schedule, available_time, analysis)
          # _format_schedule(harmony_memory[2].schedule, available_time, analysis)

\* C8: with iterations = 0 no round runs (nothing is improvised, evaluated or
\* replaced after the initialization), the memory selected from is the initial
\* population unchanged, and the report is the format of its first best member.
C8_NoIterations ==
    /\ [](iterations = 0 /\ pc = "done" =>
            /\ iteration = 0
            /\ last_round = "none"
            /\ evals = hms
            /\ Len(harmony_memory) = hms
            /\ \A i \in DOMAIN harmony_memory :
                  /\ harmony_memory[i].schedule \in
                        _generate_random_schedule(available_time, exercise_preference, days)
                  /\ harmony_memory[i].fitness =
                        _calculate_fitness(harmony_memory[i].schedule, available_time,
                                           "empty")
            /\ report = <<_format_schedule(
                              harmony_memory[FirstBest(harmony_memory)].schedule,
                              available_time, analysis)>>)
    /\ [][iterations = 0 /\ pc = "loop" /\ hms >= 1 =>
            /\ harmony_memory' = harmony_memory
            /\ pc' \in {"loop", "done"}]_vars

C8_Witness ==
    /\ iterations = 0
    /\ pc = "done"
    /\ hms >= 2
    /\ harmony_memory[1].fitness < harmony_memory[2].fitness

\* C9: two runs of optimize_schedule with the same configuration (constructor
\* and call arguments) return the same report: the random source is fixed by
\* the construction.
C9_Deterministic ==
    (calls = 2 /\ pc = "done") => report = prev_report

\* C10: for every candidate stored in memory each of the five terms is at least
\* 0 and at most its ceiling (30, 25, 20, 15, 10), and the stored fitness, their
\* sum, lies in [0, 100].
TermWithin(term, ceiling, at) == 0 <= term /\ term <= ceiling * FitDen(at)

C10_FitnessBounds ==
    \A i \in DOMAIN harmony_memory :
       LET s == harmony_memory[i].schedule
           at == available_time
       IN  /\ TermWithin(FrequencyTerm(s, at), 30, at)
           /\ TermWithin(UtilizationTerm(s, at), 25, at)
           /\ TermWithin(BalanceTerm(s, at), 20, at)
           /\ TermWithin(SpacingTerm(s, at), 15, at)
           /\ TermWithin(VarietyTerm(s, at), 10, at)
           /\ TermWithin(harmony_memory[i].fitness, 100, at)

C10_Witness ==
    /\ pc = "loop"
    /\ Len(harmony_memory) = 1
    /\ Cardinality({harmony_memory[1].schedule[d].exercise_type :
                       d \in DOMAIN harmony_memory[1].schedule} \ {REST}) = 3
    /\ VarietyTerm(harmony_memory[1].schedule, available_time)
          = 10 * FitDen(available_time)

\* C11: for days = 7 and a budget B >= 20 the report returned has exactly 7 day
\* entries, entry i carrying the i-th weekday label, a workout_days value in
\* 0..7 and a total_exercise_time of at most 7 x B.
C11_WeekReport ==
    (pc = "done" /\ days = WeekDays /\ available_time >= 20) =>
        LET plan == report[1].exercise_plan
            summary == report[1].weekly_summary
        IN  /\ Len(plan) = 7
            /\ \A i \in 1 .. 7 : plan[i].day = days_kr[i]
            /\ summary.workout_days \in 0 .. 7
            /\ summary.total_exercise_time <= 7 * available_time

C11_Witness ==
    /\ pc = "done"
    /\ days = WeekDays
    /\ available_time >= 20
    /\ report[1].weekly_summary.workout_days = 7
    /\ report[1].weekly_summary.total_exercise_time = 7 * available_time
    /\ report[1].exercise_plan[7].day = "Sunday"

\* C12: goal_timeframe of a returned report depends on the active-day count
\* alone: at least 4 active days give "8-10 weeks", exactly 3 "10-12 weeks",
\* fewer than 3 "12-16 weeks"; and workout_days is the number of non-REST
\* entries of the winning candidate.
ActiveEntries(schedule) ==
    Len(SelectSeq(schedule, LAMBDA d : d.exercise_type # REST))

C12_TimeframeBuckets ==
    pc = "done" =>
        LET summary == report[1].weekly_summary
            active == ActiveEntries(best_harmony[1].schedule)
        IN  /\ summary.workout_days = active
            /\ active >= 4 => summary.goal_timeframe = "8-10 weeks"
            /\ active = 3 => summary.goal_timeframe = "10-12 weeks"
            /\ active < 3 => summary.goal_timeframe = "12-16 weeks"

C12_Witness ==
    /\ pc = "done"
    /\ ActiveEntries(best_harmony[1].schedule) = 4
    /\ Len(best_harmony[1].schedule) = 6
    /\ report[1].weekly_summary.goal_timeframe = "8-10 weeks"

\* C13: for every preference, recognized or not, _get_exercise_types returns a
\* non-empty list (the mixed one for an unrecognized preference), and every
\* active day of every candidate in memory or selected, and of the report
\* returned, carries an activity of that list.
Activities(preference) ==
    {_get_exercise_types(preference)[k] : k \in DOMAIN _get_exercise_types(preference)}

C13_CatalogLookup ==
    /\ Len(_get_exercise_types(exercise_preference)) > 0
    /\ exercise_preference \notin {"cardio", "strength", "mixed", "yoga_pilates"} =>
          _get_exercise_types(exercise_preference)
             = <<"crossfit", "circuit_training", "cardio_strength", "functional">>
    /\ \A s \in HeldSchedules : \A d \in DOMAIN s :
          s[d].exercise_type # REST => s[d].exercise_type \in Activities(exercise_preference)
    /\ \A r \in DOMAIN report : \A d \in DOMAIN report[r].exercise_plan :
          report[r].exercise_plan[d].intensity # NONE =>
              report[r].exercise_plan[d].exercise \in Activities(exercise_preference)

C13_Witness ==
    /\ pc = "done"
    /\ exercise_preference = "unrecognized"
    /\ last_round = "replaced"
    /\ \E d \in DOMAIN report[1].exercise_plan :
          report[1].exercise_plan[d].exercise = "circuit_training"

\* C14: a configuration with hms <= 0 or days <= 0 is rejected with an
\* invalid-configuration error before any search step: it never gets past the
\* initialization, into a round, or to the min/max scan over memory.
C14_RejectsBadConfig ==
    (hms <= 0 \/ days <= 0) =>
        /\ pc \notin {"loop", "done"}
        /\ error \in {"none", "InvalidConfiguration"}

\* C15: the analysis payload does not influence the optimizer.  Whatever the
\* payload of the call, every fitness stored in memory (scored with the empty
\* payload at initialization, with the caller's payload in a round) is the
\* fitness of its schedule under every payload, every candidate the next round
\* can improvise gets the same fitness under every payload, so the round takes
\* the same branch and leaves the same memory, and the report returned is the
\* same under every payload.  Two runs that differ only in the payload and
\* receive the same draws therefore go through the same memory states.
RoundMemory(memory, harmony, at, payload) ==
    IF Better(_calculate_fitness(harmony, at, payload), memory[WorstIdx(memory)].fitness)
    THEN Replace(memory, WorstIdx(memory), harmony,
                 _calculate_fitness(harmony, at, payload))
    ELSE memory

C16_MemoryLocal ==
    \A t \in DOMAIN inv :
       /\ inv[t].pc = "loop" => \A i \in DOMAIN owner : owner[i] = t
       /\ inv[t].pc = "done" => inv[t].returned = t

\* the least fitness held, and the lowest index holding it
MinFitness(memory) ==
    CHOOSE f \in {memory[i].fitness : i \in DOMAIN memory} :
        \A i \in DOMAIN memory : f <= memory[i].fitness

FirstWorst(memory) ==
    CHOOSE i \in DOMAIN memory :
        /\ memory[i].fitness = MinFitness(memory)
        /\ \A j \in 1 .. i - 1 : memory[j].fitness # MinFitness(memory)

\* the indices at which two memories of the same length differ
Changed(before, after) == {i \in DOMAIN before : after[i] # before[i]}

\* C17: in each round, if the fitness of the improvised candidate is strictly
\* greater than the least fitness in memory, exactly the lowest-index member
\* holding that least fitness is overwritten with the candidate and its
\* fitness and every other member is unchanged; otherwise the whole memory is
\* unchanged.  No round changes more than one member.
C17_ReplacementStep ==
    [][pc = "improvised" =>
          LET candidate == new_harmony[1]
              fitness == _calculate_fitness(candidate, available_time, analysis)
              low == FirstWorst(harmony_memory)
          IN  /\ Len(harmony_memory') = Len(harmony_memory)
              /\ fitness > MinFitness(harmony_memory) =>
                    /\ harmony_memory'[low] = [schedule |-> candidate, fitness |-> fitness]
                    /\ Changed(harmony_memory, harmony_memory') = {low}
              /\ fitness <= MinFitness(harmony_memory) =>
                    harmony_memory' = harmony_memory
              /\ Cardinality(Changed(harmony_memory, harmony_memory')) <= 1]_vars

C17_Witness ==
    /\ pc = "improvised"
    /\ hms >= 2
    /\ harmony_memory[1].fitness = MinFitness(harmony_memory)
    /\ harmony_memory[2].fitness = MinFitness(harmony_memory)
    /\ _calculate_fitness(new_harmony[1], available_time, analysis)
          > MinFitness(harmony_memory)

\* C18: _improvise_new_harmony leaves harmony_memory unchanged, schedules and
\* stored fitness alike, also when it pitch-adjusts a day copied from a
\* member; the memory changes only at the initialization and at the
\* replacement of lines 55-58.
C18_ImproviseKeepsMemory ==
    [][/\ (pc = "loop" /\ pc' = "improvised") => harmony_memory' = harmony_memory
       /\ harmony_memory' # harmony_memory =>
             \/ pc = "start"
             \/ pc = "improvised" /\ last_round' = "replaced"]_vars

C18_Witness ==
    /\ pc = "improvised"
    /\ \E d \in DOMAIN picks :
          /\ picks[d].source > 0
          /\ picks[d].adjusted
          /\ new_harmony[1][d] # harmony_memory[picks[d].source].schedule[d]

\* C19 as claimed: in every round the least fitness in memory after the round
\* is at most the least fitness before it, and the memory keeps its size.
C19_MinNeverRises ==
    [][pc = "improvised" =>
          /\ Len(harmony_memory') = Len(harmony_memory)
          /\ MinFitness(harmony_memory') <= MinFitness(harmony_memory)]_vars

\* C19 amended: in every round the least fitness in memory after the round is
\* at least the least fitness before it, and the memory keeps its size.
C19_MinNeverFalls ==
    [][pc = "improvised" =>
          /\ Len(harmony_memory') = Len(harmony_memory)
          /\ MinFitness(harmony_memory') >= MinFitness(harmony_memory)]_vars

C19_Witness ==
    /\ pc = "loop"
    /\ hms = 2
    /\ iteration = 2
    /\ last_round = "replaced"
    /\ harmony_memory[1].fitness # harmony_memory[2].fitness

\* C20: pitch adjustment acts only on days copied from memory, day by day.  In
\* the candidate _improvise_new_harmony returns, a day copied from member m
\* without adjustment is m's day; a copied REST day that was up for
\* adjustment is left as copied (REST, 0, NONE); a copied active day that was
\* adjusted keeps its number and activity, lasts clamp(old + k, 20, budget)
\* for some k in -15..15 and has an intensity LOW, MEDIUM or HIGH; a
\* synthesized day is REST or an activity of randint(max(20, budget - 20),
\* budget) minutes, never adjusted.  The days are decided independently: the
\* candidates a round can improvise are all combinations of the days' outcomes.
Clamp(n, low, high) == IF n < low THEN low ELSE IF n > high THEN high ELSE n

AdjustedFrom(old, x) ==
    /\ x.day = old.day
    /\ x.exercise_type = old.exercise_type
    /\ \E k \in -15 .. 15 : x.duration = Clamp(old.duration + k, 20, available_time)
    /\ x.intensity \in {"LOW", "MEDIUM", "HIGH"}

Synthesized(d, x) ==
    \/ x = [day |-> d, exercise_type |-> REST, duration |-> 0, intensity |-> NONE]
    \/ /\ x.day = d
       /\ x.exercise_type \in Activities(exercise_preference)
       /\ x.duration >= Max(20, available_time - 20)
       /\ x.duration <= available_time
       /\ x.intensity \in {"LOW", "MEDIUM", "HIGH"}

C20_PitchAdjustment ==
    /\ pc = "improvised" =>
          \A d \in DOMAIN picks :
             LET x == new_harmony[1][d]
                 old == harmony_memory[picks[d].source].schedule[d]
             IN  /\ picks[d].source = 0 => ~picks[d].adjusted /\ Synthesized(d, x)
                 /\ (picks[d].source > 0 /\ ~picks[d].adjusted) => x = old
                 /\ (picks[d].source > 0 /\ picks[d].adjusted /\ old.exercise_type = REST) =>
                        /\ x = old
                        /\ x.duration = 0
                        /\ x.intensity = NONE
                 /\ (picks[d].source > 0 /\ picks[d].adjusted /\ old.exercise_type # REST) =>
                        AdjustedFrom(old, x)
    /\ CanImprovise =>
          {outcome.schedule :
              outcome \in ImproviseOutcomes(harmony_memory, days, available_time,
                                            _get_exercise_types(exercise_preference),
                                            hmcr, par)}
             = {s \in Improvisations :
                  \A d \in DOMAIN s :
                     s[d] \in ImproviseDay(harmony_memory, d, available_time,
                                           _get_exercise_types(exercise_preference),
                                           hmcr, par)}

C20_Witness ==
    /\ pc = "improvised"
    /\ available_time = 50
    /\ picks[1].source = 1
    /\ picks[1].adjusted
    /\ harmony_memory[1].schedule[1].duration = 50
    /\ new_harmony[1][1].duration = 35
    /\ new_harmony[1][1].intensity # harmony_memory[1].schedule[1].intensity

\* the candidate of a direct call that has returned, and its number of
\* non-REST days
Scored == direct[1].schedule

ScoredActive == ActiveEntries(Scored)

\* C21: the frequency term depends only on the number w of non-REST days: 30
\* when 3 <= w <= 5, 20 when w is 2 or 6, and 10 otherwise.
C21_FrequencyTerm ==
    pc = "scored" =>
        LET w == ScoredActive
            term == FrequencyTerm(Scored, available_time)
        IN  /\ w \in {3, 4, 5} => term = 30 * FitDen(available_time)
            /\ w \in {2, 6} => term = 20 * FitDen(available_time)
            /\ w \in {0, 1, 7} => term = 10 * FitDen(available_time)
            /\ w \in 0 .. 7

C21_Witness ==
    /\ pc = "scored"
    /\ Len(Scored) = 7
    /\ ScoredActive = 6
    /\ FrequencyTerm(Scored, available_time) = 20 * FitDen(available_time)

\* the minutes of a candidate, summed from its first day on
RECURSIVE TotalMinutes(_)
TotalMinutes(schedule) ==
    IF schedule = <<>> THEN 0 ELSE Head(schedule).duration + TotalMinutes(Tail(schedule))

\* C22: for a positive budget B the utilization term is 25 x min(total minutes
\* / (4 x B), 1); for a zero budget it is 0 and the evaluation raises no
\* division error, whatever the durations of the candidate.
C22_UtilizationTerm ==
    /\ error # "ZeroDivisionError"
    /\ pc = "scored" =>
          LET total == TotalMinutes(Scored)
              term == UtilizationTerm(Scored, available_time)
          IN  /\ (available_time > 0 /\ total <= 4 * available_time) =>
                    term * (4 * available_time) = 25 * total * FitDen(available_time)
              /\ (available_time > 0 /\ total > 4 * available_time) =>
                    term = 25 * FitDen(available_time)
              /\ available_time = 0 => term = 0
    /\ (available_time = 0 /\ evals > 0) => pc = "scored"

C22_Witness ==
    /\ pc = "scored"
    /\ available_time = 0
    /\ TotalMinutes(Scored) > 0
    /\ UtilizationTerm(Scored, available_time) = 0

\* the occurrences of an intensity among the days of a candidate
Occurrences(schedule, x) == Len(SelectSeq(schedule, LAMBDA d : d.intensity = x))

Spread(schedule) ==
    LET low == Occurrences(schedule, "LOW")
        medium == Occurrences(schedule, "MEDIUM")
        high == Occurrences(schedule, "HIGH")
    IN  Max(low, Max(medium, high)) - Min(low, Min(medium, high))

\* all the active days of the candidate use one intensity
SingleIntensity(schedule) ==
    /\ ActiveEntries(schedule) >= 1
    /\ \E x \in {"LOW", "MEDIUM", "HIGH"} :
          Occurrences(schedule, x) = ActiveEntries(schedule)

\* by how much the balance term is below 20
BalanceLoss(schedule) == 20 * FitDen(available_time) - BalanceTerm(schedule, available_time)

\* C23 as claimed: the balance term is 20 x (1 - (maxCount - minCount) /
\* max(1, w)); it is 20 when LOW, MEDIUM and HIGH occur equally often; and a
\* plan whose active days all use one intensity scores lower by an amount
\* proportional to w: w times what a plan of one active day loses.
C23_BalanceProportional ==
    pc = "scored" =>
        LET w == ScoredActive
        IN  /\ BalanceTerm(Scored, available_time) * Max(1, w)
                  = 20 * (Max(1, w) - Spread(Scored)) * FitDen(available_time)
            /\ Spread(Scored) = 0 =>
                  BalanceTerm(Scored, available_time) = 20 * FitDen(available_time)
            /\ SingleIntensity(Scored) =>
                  /\ BalanceTerm(Scored, available_time) < 20 * FitDen(available_time)
                  /\ BalanceLoss(Scored)
                        = w * BalanceLoss(<<ActiveDay(1, "running", 30, "LOW")>>)

\* C23 amended: the balance term is 20 x (1 - (maxCount - minCount) /
\* max(1, w)); it is 20 when LOW, MEDIUM and HIGH occur equally often; and a
\* plan whose active days all use one intensity scores 0, whatever w >= 1 is.
C23_BalanceTerm ==
    pc = "scored" =>
        LET w == ScoredActive
        IN  /\ BalanceTerm(Scored, available_time) * Max(1, w)
                  = 20 * (Max(1, w) - Spread(Scored)) * FitDen(available_time)
            /\ Spread(Scored) = 0 =>
                  BalanceTerm(Scored, available_time) = 20 * FitDen(available_time)
            /\ SingleIntensity(Scored) => BalanceTerm(Scored, available_time) = 0

C23_Witness ==
    /\ pc = "scored"
    /\ ScoredActive = 6
    /\ Occurrences(Scored, "LOW") = 2
    /\ Occurrences(Scored, "MEDIUM") = 2
    /\ Occurrences(Scored, "HIGH") = 2
    /\ BalanceTerm(Scored, available_time) = 20 * FitDen(available_time)

\* the longest run of consecutive non-REST days, in day order
Runs(schedule) ==
    {<<i, j>> \in (DOMAIN schedule) \X (DOMAIN schedule) :
        i <= j /\ \A k \in i .. j : schedule[k].exercise_type # REST}

LongestRun(schedule) ==
    IF Runs(schedule) = {} THEN 0
    ELSE LET longest == CHOOSE r \in Runs(schedule) :
                            \A q \in Runs(schedule) : q[2] - q[1] <= r[2] - r[1]
         IN  longest[2] - longest[1] + 1

RECURSIVE PlanMinutes(_)
PlanMinutes(plan) ==
    IF plan = <<>> THEN 0 ELSE Head(plan).duration + PlanMinutes(Tail(plan))

RECURSIVE PlanCalories(_)
PlanCalories(plan) ==
    IF plan = <<>> THEN 0 ELSE Head(plan).estimated_calories + PlanCalories(Tail(plan))

RecoveryEntry(label) ==
    [day |-> label, exercise |-> "rest or light stretching", duration |-> 0,
     intensity |-> NONE, goal |-> "recovery", estimated_calories |-> 0]

\* C25: _format_schedule preserves the winning candidate: an active day appears
\* at its position with its activity, duration and intensity; a REST day
\* appears as the fixed recovery entry with duration 0 and estimated energy 0;
\* total_exercise_time is the sum of the entries' durations,
\* estimated_calories the sum of their estimated energies, and workout_days
\* the number of non-recovery entries.
C25_FormatPreserves ==
    pc = "done" =>
        LET plan == report[1].exercise_plan
            summary == report[1].weekly_summary
            schedule == best_harmony[1].schedule
        IN  /\ Len(plan) = Len(schedule)
            /\ \A i \in DOMAIN schedule :
                  IF schedule[i].exercise_type = REST
                  THEN plan[i] = RecoveryEntry(plan[i].day)
                  ELSE /\ plan[i].exercise = schedule[i].exercise_type
                       /\ plan[i].duration = schedule[i].duration
                       /\ plan[i].intensity = schedule[i].intensity
            /\ summary.total_exercise_time = PlanMinutes(plan)
            /\ summary.estimated_calories = PlanCalories(plan)
            /\ summary.workout_days
                  = Len(SelectSeq(plan, LAMBDA e : e # RecoveryEntry(e.day)))

C25_Witness ==
    /\ pc = "done"
    /\ Len(report[1].exercise_plan) = 7
    /\ report[1].exercise_plan[1].estimated_calories = 140
    /\ report[1].exercise_plan[2] = RecoveryEntry("Tuesday")
    /\ report[1].exercise_plan[3].estimated_calories = 260
    /\ report[1].weekly_summary.estimated_calories = 1200

\* C26: in every state of optimize_schedule, between the improvisation and the
\* decision of a round included, the fitness stored with each member of
\* harmony_memory is _calculate_fitness of that member's own schedule with the
\* budget of the call.
C26_StoredFitness ==
    \A i \in DOMAIN harmony_memory :
       harmony_memory[i].fitness
          = FrequencyTerm(harmony_memory[i].schedule, available_time)
            + UtilizationTerm(harmony_memory[i].schedule, available_time)
            + BalanceTerm(harmony_memory[i].schedule, available_time)
            + SpacingTerm(harmony_memory[i].schedule, available_time)
            + VarietyTerm(harmony_memory[i].schedule, available_time)

C26_Witness ==
    /\ pc = "improvised"
    /\ iteration = 1
    /\ last_round = "replaced"
    /\ hms = 2
    /\ \E d \in DOMAIN picks : picks[d].source > 0 /\ picks[d].adjusted

\* the candidate has n decisions, numbered 1 to n in order
Numbered(schedule, n) ==
    /\ Len(schedule) = n
    /\ \A i \in DOMAIN schedule : schedule[i].day = i

\* C27: for every days >= 1, days > 7 included, every candidate in memory and
\* every candidate a round can improvise has exactly days decisions numbered
\* in order, the report returned has exactly days entries, and the
\* formatter's day-label lookup raises no error.
C27_AnyDayCount ==
    days >= 1 =>
        /\ \A s \in HeldSchedules : Numbered(s, days)
        /\ CanImprovise => \A s \in Improvisations : Numbered(s, days)
        /\ pc = "done" => Len(report[1].exercise_plan) = days
        /\ ~(pc = "error" /\ error = "IndexError")

====
